---- MODULE Spec2Model ----
(***************************************************************************)
(* A model of pulsar's synchronous worker loop (pulsar/workers/sync.py,    *)
(* WsgiSyncMixin) and of the parallel test suite's monitor callbacks       *)
(* (pulsar/apps/test/__init__.py, TestSuite and Remotes).                  *)
(*                                                                         *)
(* Spec      : one Worker running WsgiSyncMixin._run, with its environment *)
(*             (the Monitor's stop signal, a change of the parent process).*)
(* SuiteSpec : the TestSuite monitor (monitor_start, monitor_task,         *)
(*             actor_test_result) with its task queue and worker pool.     *)
(***************************************************************************)
EXTENDS Integers, Sequences, FiniteSets

VARIABLES
    \* ---- WsgiSyncMixin worker ----
    pc,             \* position of the worker in _run / handle / handle_request
    alive,          \* self.alive
    nr,             \* self.nr, the served counter
    max_requests,   \* self.max_requests
    debug,          \* self.debug
    ppid,           \* self.ppid, the parent identity at start
    get_parent_id,  \* self.get_parent_id, the parent identity read now
    client,         \* the connection being handled: "none" or "open"
    err,            \* the exception in flight inside handle / handle_request
    exit,           \* how _run ended: "none", "stop" (alive false at the loop top),
                    \* "orphan" (parent changed), "fatal" (accept's error re-raised),
                    \* "raised" (any other exception leaving _run)
    response,       \* what was written to the client in hand
    accepted,       \* history: connections accepted
    closed,         \* history: close(client) calls
    idles,          \* history: transient accept failures (no-work branches)
    notifies,       \* history: self.notify() calls
    polls,          \* history: iopoll.poll calls
    thresholdHit,   \* history: line 112 has set alive = False
    itemFailed,     \* history: the item in hand (or last handled) raised a failure
    stopSignal,     \* history: the Monitor has signalled stop
    itemsAfterStop,     \* history: accepts made while alive was already false
    pollsAfterStop,     \* history: polls begun while alive was already false
    itemsAfterOrphan,   \* history: accepts made after the parent changed
    pollsAfterOrphan,   \* history: polls begun after the parent changed
    acceptErrno,    \* history: errno accept raised in this iteration, until the parent check
    failure,        \* history: where and what the item in hand first raised
    errorSent,      \* history: an error response was attempted for the item in hand
    served,         \* history: items whose handler ran and response was written
    handlerRuns,    \* history: items whose handler was entered
    \* ---- TestSuite monitor ----
    tests,          \* self.local['tests'] as found by loader.testclasses(tags)
    workers,        \* self.cfg.workers, the configured number of workers
    started,        \* monitor_start has run
    cfgWorkers,     \* monitor.cfg 'workers'
    timeStartSet,   \* self._time_start has been assigned
    queue,          \* the monitor's task queue (monitor.put)
    holder,         \* per pool worker: 0 = not spawned, or "idle", or the item held
    taken,          \* history: per item, how many times it was dequeued
    sent,           \* results reported by workers, in the channel to the monitor
    deliveries,     \* history: per item, how many actor_test_result calls it got
    recorded,       \* runner: the task identifiers with a recorded result
    count,          \* runner.count
    stopCalls,      \* history: monitor.arbiter.stop() calls
    stopped,        \* the shutdown has taken effect
    noTestsReported,\* 'Could not find any tests.' was printed
    abortMessage,   \* runner.configure(self.cfg) returns an abort message
    list_labels,    \* self.cfg.list_labels
    phase,          \* on_config: "new", "aborted", "listed" or "loaded"
    runnerCached,   \* 'runner' in self.local
    loaderStored,   \* 'loader' in self.local
    exitTests,      \* history: ExitTest exceptions raised
    yielded,        \* history: the pairs loader.testmodules yielded for the listing
    printed,        \* the label lines printed by the listing
    startFailed,    \* monitor_start raised KeyError at self.local['loader']
    summaries,      \* history: runner.printSummary calls
    completionEntered, \* history: a tick entered monitor_task's completion branch
    tickErrors,     \* history: ticks that raised (unset _time_start)
    ticks           \* history: monitor_task calls

workerVars == <<pc, alive, nr, max_requests, debug, ppid, get_parent_id, client,
                err, exit, response, accepted, closed, idles, notifies, polls, thresholdHit,
                itemFailed, stopSignal, itemsAfterStop, pollsAfterStop, itemsAfterOrphan,
                pollsAfterOrphan, acceptErrno, failure, errorSent, served, handlerRuns>>

suiteVars == <<tests, workers, started, cfgWorkers, timeStartSet, queue, holder, taken, sent,
               deliveries, recorded, count, stopCalls, stopped, noTestsReported,
               summaries, completionEntered, tickErrors, ticks,
               abortMessage, list_labels, phase, runnerCached, loaderStored,
               exitTests, yielded, printed, startFailed>>

vars == <<workerVars, suiteVars>>

\* ---------------------------------------------------------------- bounds
MaxConn == 3          \* connections the listening socket ever yields
MaxIdle == 2          \* transient accept failures in one run
MaxRequestsCfg == 3   \* largest configured max_requests
MaxTests == 3         \* largest number of test classes found
MaxWorkersCfg == 3    \* largest configured number of workers
MaxDeliveries == 2    \* deliveries of one result message (duplication)
MaxTicks == 3         \* monitor ticks in one run
MaxMods == 2          \* (tag, module) pairs yielded by loader.testmodules
MaxLabels == 2        \* distinct tags among them

Min(a, b) == IF a <= b THEN a ELSE b

\* ======================================================================
\* The synchronous worker: WsgiSyncMixin (pulsar/workers/sync.py)
\* ======================================================================

\* errno values socket.accept may raise; the first three are the allowed ones.
ALLOWED_ERRORS == {"EAGAIN", "ECONNABORTED", "EWOULDBLOCK"}
AcceptErrnos == ALLOWED_ERRORS \cup {"EBADF", "EMFILE"}

\* Exceptions raised while parsing or executing a request: StopIteration (the
\* client went away before a request was read), socket.error with errno EPIPE,
\* socket.error with another errno, any other Exception.
Failures == {"StopIteration", "EPIPE", "ESOCK", "Exception"}
IsSocketError(e) == e \in {"EPIPE", "ESOCK"}
NoFailure == [stage |-> "none", kind |-> "none"]

Parents == {"arbiter", "init"}

WorkerInit ==
    /\ pc = "top"
    /\ alive = TRUE
    /\ nr = 0
    /\ max_requests \in 1..MaxRequestsCfg
    /\ debug \in BOOLEAN
    /\ ppid = "arbiter"
    /\ get_parent_id = "arbiter"
    /\ client = "none"
    /\ err = "none"
    /\ exit = "none"
    /\ response = "none"
    /\ accepted = 0 /\ closed = 0 /\ idles = 0 /\ notifies = 0 /\ polls = 0
    /\ thresholdHit = FALSE
    /\ itemFailed = FALSE
    /\ stopSignal = FALSE
    /\ itemsAfterStop = 0 /\ pollsAfterStop = 0
    /\ itemsAfterOrphan = 0 /\ pollsAfterOrphan = 0
    /\ acceptErrno = "none"
    /\ failure = NoFailure
    /\ errorSent = FALSE
    /\ served = 0 /\ handlerRuns = 0

cfgVars == <<max_requests, debug, ppid>>
envVars == <<get_parent_id, stopSignal>>
idleHist == <<idles, notifies, polls, pollsAfterStop, pollsAfterOrphan>>
itemHist == <<response, accepted, closed, thresholdHit, itemFailed, itemsAfterStop,
              itemsAfterOrphan>>
execHist == <<failure, errorSent, served, handlerRuns>>

\* A variant of the loop that never looks at self.alive (while True).
LoopTopIgnoresAlive ==
    /\ pc = "top"
    /\ pc' = "accept"
    /\ UNCHANGED <<alive, nr, client, err, exit, cfgVars, envVars, idleHist, itemHist,
                   acceptErrno, execHist,
                   suiteVars>>

\* line 33: while self.alive
LoopTop ==
    /\ pc = "top"
    /\ IF alive
          THEN /\ pc' = "accept"
               /\ exit' = exit
          ELSE /\ pc' = "done"
               /\ exit' = "stop"
    /\ UNCHANGED <<alive, nr, client, err, cfgVars, envVars, idleHist, itemHist,
                   acceptErrno, execHist,
                   suiteVars>>

\* lines 39-42: accept succeeds, the client is made blocking and handed to handle
AcceptOk ==
    /\ pc = "accept"
    /\ accepted < MaxConn
    /\ client' = "open"
    /\ accepted' = accepted + 1
    /\ itemFailed' = FALSE
    /\ response' = "none"
    /\ itemsAfterStop' = IF alive THEN itemsAfterStop ELSE itemsAfterStop + 1
    /\ itemsAfterOrphan' = IF get_parent_id = ppid THEN itemsAfterOrphan
                                                   ELSE itemsAfterOrphan + 1
    /\ acceptErrno' = "none"
    /\ failure' = NoFailure
    /\ errorSent' = FALSE
    /\ pc' = "parse"
    /\ UNCHANGED <<alive, nr, err, exit, closed, thresholdHit, cfgVars, envVars,
                   idleHist,
                   served, handlerRuns,
                   suiteVars>>

\* lines 39-47 under lasting load: accept yields one more connection after
\* MaxConn of them. The history counters stay in their range: they then count
\* within the last MaxConn connections.
AcceptMore ==
    /\ pc = "accept"
    /\ accepted = MaxConn
    /\ client' = "open"
    /\ closed' = closed - 1
    /\ itemFailed' = FALSE
    /\ response' = "none"
    /\ acceptErrno' = "none"
    /\ failure' = NoFailure
    /\ errorSent' = FALSE
    /\ pc' = "parse"
    /\ UNCHANGED <<alive, nr, err, exit, accepted, thresholdHit, itemsAfterStop,
                   itemsAfterOrphan, cfgVars, envVars, idleHist, served, handlerRuns,
                   suiteVars>>

\* A variant of accept's except clause that swallows every socket.error.
AcceptErrorSwallowsAll(e) ==
    /\ pc = "accept"
    /\ acceptErrno' = e
    /\ idles < MaxIdle
    /\ idles' = idles + 1
    /\ pc' = "check_parent"
    /\ UNCHANGED <<alive, nr, client, err, exit, cfgVars, envVars, notifies, polls,
                   pollsAfterStop, pollsAfterOrphan, itemHist, execHist, suiteVars>>

\* lines 39, 49-51: accept raises socket.error with errno e
AcceptError(e) ==
    /\ pc = "accept"
    /\ acceptErrno' = e
    /\ IF e \in ALLOWED_ERRORS
          THEN /\ idles < MaxIdle
               /\ idles' = idles + 1
               /\ pc' = "check_parent"
               /\ exit' = exit
          ELSE /\ idles' = idles
               /\ pc' = "done"
               /\ exit' = "fatal"
    /\ UNCHANGED <<alive, nr, client, err, cfgVars, envVars, notifies, polls,
                   pollsAfterStop, pollsAfterOrphan, itemHist,
                   execHist,
                   suiteVars>>

\* A variant of the parent check that logs the change and goes on.
CheckParentNoReturn ==
    /\ pc = "check_parent"
    /\ pc' = "notify"
    /\ acceptErrno' = "none"
    /\ UNCHANGED <<alive, nr, client, err, exit, cfgVars, envVars, idleHist, itemHist,
                   execHist, suiteVars>>

\* lines 53-56: if self.ppid != self.get_parent_id: return
CheckParent ==
    /\ pc = "check_parent"
    /\ IF ppid # get_parent_id
          THEN /\ pc' = "done"
               /\ exit' = "orphan"
          ELSE /\ pc' = "notify"
               /\ exit' = exit
    /\ acceptErrno' = "none"
    /\ UNCHANGED <<alive, nr, client, err, cfgVars, envVars, idleHist, itemHist,
                   execHist, suiteVars>>

\* line 58: self.notify()
Notify ==
    /\ pc = "notify"
    /\ notifies' = notifies + 1
    /\ pc' = "poll"
    /\ UNCHANGED <<alive, nr, client, err, exit, cfgVars, envVars, idles, polls,
                   pollsAfterStop, pollsAfterOrphan, itemHist,
                   acceptErrno, execHist,
                   suiteVars>>

\* line 59: iopoll.poll(self.timeout), a bounded wait, then back to the loop top
Poll ==
    /\ pc = "poll"
    /\ polls' = polls + 1
    /\ pollsAfterStop' = IF alive THEN pollsAfterStop ELSE pollsAfterStop + 1
    /\ pollsAfterOrphan' = IF get_parent_id = ppid THEN pollsAfterOrphan
                                                   ELSE pollsAfterOrphan + 1
    /\ pc' = "top"
    /\ UNCHANGED <<alive, nr, client, err, exit, cfgVars, envVars, idles, notifies,
                   itemHist,
                   acceptErrno, execHist,
                   suiteVars>>

\* handle, lines 79-80: RequestParser(client), parser.next()
Parse ==
    /\ pc = "parse"
    /\ \/ /\ pc' = "pre_request"
          /\ UNCHANGED <<err, itemFailed, failure>>
       \/ \E e \in Failures :
             /\ err' = e
             /\ itemFailed' = TRUE
             /\ failure' = [stage |-> "parse", kind |-> e]
             /\ pc' = "handle_except"
    /\ UNCHANGED <<alive, nr, client, exit, response, cfgVars, envVars, idleHist,
                   accepted, closed, thresholdHit, itemsAfterStop, itemsAfterOrphan,
                   acceptErrno, errorSent, served, handlerRuns,
                   suiteVars>>

\* handle_request, lines 102-108: pre_request, create_wsgi, force_close
PreRequest ==
    /\ pc = "pre_request"
    /\ \/ /\ pc' = "count"
          /\ UNCHANGED <<err, itemFailed, failure>>
       \/ \E e \in Failures :
             /\ err' = e
             /\ itemFailed' = TRUE
             /\ failure' = [stage |-> "request", kind |-> e]
             /\ pc' = "request_except"
    /\ UNCHANGED <<alive, nr, client, exit, response, cfgVars, envVars, idleHist,
                   accepted, closed, thresholdHit, itemsAfterStop, itemsAfterOrphan,
                   acceptErrno, errorSent, served, handlerRuns,
                   suiteVars>>

\* A variant that assigns the counter instead of incrementing it.
CountRequestAssigns ==
    /\ pc = "count"
    /\ nr' = 1
    /\ IF 1 >= max_requests
          THEN /\ alive' = FALSE
               /\ thresholdHit' = TRUE
          ELSE UNCHANGED <<alive, thresholdHit>>
    /\ pc' = "handler"
    /\ UNCHANGED <<client, err, exit, response, cfgVars, envVars, idleHist, accepted,
                   closed, itemFailed, itemsAfterStop, itemsAfterOrphan,
                   acceptErrno, execHist, suiteVars>>

\* A variant that counts but never clears self.alive.
CountRequestNoStop ==
    /\ pc = "count"
    /\ nr' = nr + 1
    /\ pc' = "handler"
    /\ UNCHANGED <<alive, thresholdHit, client, err, exit, response, cfgVars, envVars,
                   idleHist, accepted, closed, itemFailed, itemsAfterStop,
                   itemsAfterOrphan, acceptErrno, execHist, suiteVars>>

\* A variant of the threshold test that compares with > instead of >=.
CountRequestLate ==
    /\ pc = "count"
    /\ nr' = nr + 1
    /\ IF nr + 1 > max_requests
          THEN /\ alive' = FALSE
               /\ thresholdHit' = TRUE
          ELSE UNCHANGED <<alive, thresholdHit>>
    /\ pc' = "handler"
    /\ UNCHANGED <<client, err, exit, response, cfgVars, envVars, idleHist, accepted,
                   closed, itemFailed, itemsAfterStop, itemsAfterOrphan,
                   acceptErrno, execHist,
                   suiteVars>>

\* A variant that leaves the loop as soon as the threshold is reached.
CountRequestLeaves ==
    /\ pc = "count"
    /\ nr' = nr + 1
    /\ IF nr + 1 >= max_requests
          THEN /\ alive' = FALSE
               /\ thresholdHit' = TRUE
               /\ pc' = "done"
               /\ exit' = "stop"
          ELSE /\ pc' = "handler"
               /\ UNCHANGED <<alive, thresholdHit, exit>>
    /\ UNCHANGED <<client, err, response, cfgVars, envVars, idleHist, accepted,
                   closed, itemFailed, itemsAfterStop, itemsAfterOrphan,
                   acceptErrno, execHist,
                   suiteVars>>

\* handle_request, lines 109-112: self.nr += 1; at the threshold self.alive = False
CountRequest ==
    /\ pc = "count"
    /\ nr' = nr + 1
    /\ IF nr + 1 >= max_requests
          THEN /\ alive' = FALSE
               /\ thresholdHit' = TRUE
          ELSE UNCHANGED <<alive, thresholdHit>>
    /\ pc' = "handler"
    /\ UNCHANGED <<client, err, exit, response, cfgVars, envVars, idleHist, accepted,
                   closed, itemFailed, itemsAfterStop, itemsAfterOrphan,
                   acceptErrno, execHist,
                   suiteVars>>

\* handle_request, lines 113-118: the handler runs, the response is written and closed
RunHandler ==
    /\ pc = "handler"
    /\ handlerRuns' = handlerRuns + 1
    /\ \/ /\ pc' = "post_request"
          /\ response' = "written"
          /\ served' = served + 1
          /\ UNCHANGED <<err, itemFailed, failure>>
       \/ \E e \in Failures :
             /\ err' = e
             /\ itemFailed' = TRUE
             /\ failure' = [stage |-> "handler", kind |-> e]
             /\ served' = served
             /\ response' = response
             /\ pc' = "request_except"
    /\ UNCHANGED <<alive, nr, client, exit, cfgVars, envVars, idleHist, accepted,
                   closed, thresholdHit, itemsAfterStop, itemsAfterOrphan,
                   acceptErrno, errorSent,
                   suiteVars>>

\* handle_request, lines 119-126: socket.error is re-raised; another exception is
\* re-raised unless self.debug, and then write_error sends the traceback (which
\* may itself raise) and handle_request returns.
RequestExcept ==
    /\ pc = "request_except"
    /\ IF IsSocketError(err) \/ ~debug
          THEN UNCHANGED <<err, response, errorSent>>
          ELSE /\ errorSent' = TRUE
               /\ \/ /\ err' = "none"
                     /\ response' = "traceback"
                  \/ \E e \in {"EPIPE", "ESOCK", "Exception"} :
                        /\ err' = e
                        /\ response' = response
    /\ pc' = "post_request"
    /\ UNCHANGED <<alive, nr, client, exit, cfgVars, envVars, idleHist, accepted, closed,
                   thresholdHit, itemFailed, itemsAfterStop, itemsAfterOrphan,
                   acceptErrno, failure, served, handlerRuns,
                   suiteVars>>

\* handle_request, lines 127-131: finally post_request, its own failure swallowed;
\* then handle_request returns, or the exception in flight reaches handle.
PostRequest ==
    /\ pc = "post_request"
    /\ pc' = IF err = "none" THEN "close" ELSE "handle_except"
    /\ UNCHANGED <<alive, nr, client, err, exit, cfgVars, envVars, idleHist, itemHist,
                   acceptErrno, execHist,
                   suiteVars>>

\* A variant of handle's last clause that only logs and sends nothing.
HandleExceptLogsOnly ==
    /\ pc = "handle_except"
    /\ err' = "none"
    /\ pc' = "close"
    /\ UNCHANGED <<alive, nr, client, exit, response, errorSent, cfgVars, envVars,
                   idleHist, accepted, closed, thresholdHit, itemFailed, itemsAfterStop,
                   itemsAfterOrphan, acceptErrno, failure, served, handlerRuns,
                   suiteVars>>

\* A variant of handle's socket.error clause that re-raises all but EPIPE.
HandleExceptReraises ==
    /\ pc = "handle_except"
    /\ IF err = "ESOCK"
          THEN /\ pc' = "done"
               /\ exit' = "raised"
               /\ UNCHANGED <<err, response, errorSent>>
          ELSE /\ IF err = "StopIteration" \/ IsSocketError(err)
                     THEN UNCHANGED <<response, errorSent>>
                     ELSE /\ errorSent' = TRUE
                          /\ \/ response' = "500"
                             \/ response' = "500 failed"
               /\ err' = "none"
               /\ pc' = "close"
               /\ exit' = exit
    /\ UNCHANGED <<alive, nr, client, cfgVars, envVars, idleHist, accepted, closed,
                   thresholdHit, itemFailed, itemsAfterStop, itemsAfterOrphan,
                   acceptErrno, failure, served, handlerRuns,
                   suiteVars>>

\* handle, lines 82-96: StopIteration and socket.error are logged; for any other
\* exception a 500 response is attempted and its failure swallowed.
HandleExcept ==
    /\ pc = "handle_except"
    /\ IF err = "StopIteration" \/ IsSocketError(err)
          THEN UNCHANGED <<response, errorSent>>
          ELSE /\ errorSent' = TRUE
               /\ \/ response' = "500"
                  \/ response' = "500 failed"
    /\ err' = "none"
    /\ pc' = "close"
    /\ UNCHANGED <<alive, nr, client, exit, cfgVars, envVars, idleHist, accepted, closed,
                   thresholdHit, itemFailed, itemsAfterStop, itemsAfterOrphan,
                   acceptErrno, failure, served, handlerRuns,
                   suiteVars>>

\* A variant of handle that closes the client only after a request without failure.
CloseClientOnSuccess ==
    /\ pc = "close"
    /\ IF itemFailed THEN UNCHANGED <<client, closed>>
                     ELSE /\ client' = "none"
                          /\ closed' = closed + 1
    /\ pc' = "top"
    /\ UNCHANGED <<alive, nr, err, exit, response, cfgVars, envVars, idleHist, accepted,
                   thresholdHit, itemFailed, itemsAfterStop, itemsAfterOrphan,
                   acceptErrno, execHist, suiteVars>>

\* A variant of _run without the continue of line 47: after handle the loop
\* falls through to the parent check.
CloseClientNoContinue ==
    /\ pc = "close"
    /\ client' = "none"
    /\ closed' = closed + 1
    /\ pc' = "check_parent"
    /\ UNCHANGED <<alive, nr, err, exit, response, cfgVars, envVars, idleHist, accepted,
                   thresholdHit, itemFailed, itemsAfterStop, itemsAfterOrphan,
                   acceptErrno, execHist, suiteVars>>

\* handle, lines 97-98: finally close(client); then line 47: continue
CloseClient ==
    /\ pc = "close"
    /\ client' = "none"
    /\ closed' = closed + 1
    /\ pc' = "top"
    /\ UNCHANGED <<alive, nr, err, exit, response, cfgVars, envVars, idleHist, accepted,
                   thresholdHit, itemFailed, itemsAfterStop, itemsAfterOrphan,
                   acceptErrno, execHist,
                   suiteVars>>

\* The Monitor's stop signal: self.alive is set false from outside the loop.
MonitorStop ==
    /\ pc # "done"
    /\ alive
    /\ alive' = FALSE
    /\ stopSignal' = TRUE
    /\ UNCHANGED <<pc, nr, client, err, exit, cfgVars, get_parent_id, idleHist, itemHist,
                   acceptErrno, execHist,
                   suiteVars>>

\* The parent process goes away: the parent identity read now is another one.
ParentChanged ==
    /\ pc # "done"
    /\ get_parent_id = ppid
    /\ get_parent_id' \in Parents \ {ppid}
    /\ UNCHANGED <<pc, alive, nr, client, err, exit, cfgVars, stopSignal, idleHist,
                   itemHist,
                   acceptErrno, execHist,
                   suiteVars>>

WorkerNext ==
    \/ LoopTop
    \/ AcceptOk
    \/ \E e \in AcceptErrnos : AcceptError(e)
    \/ CheckParent
    \/ Notify
    \/ Poll
    \/ Parse
    \/ PreRequest
    \/ CountRequest
    \/ RunHandler
    \/ RequestExcept
    \/ PostRequest
    \/ HandleExcept
    \/ CloseClient
    \/ MonitorStop
    \/ ParentChanged

\* ======================================================================
\* The test suite's monitor: TestSuite, Remotes (pulsar/apps/test/__init__.py)
\* ======================================================================

Items == 1..MaxTests            \* task identifiers (tag, test class)
Pool == 1..MaxWorkersCfg        \* the pool's worker slots
NotSpawned == -1                \* holder value: the slot has no worker
Idle == 0                       \* holder value: the worker holds no item

SuiteInit ==
    /\ tests \in {[i \in 1..n |-> i] : n \in 0..MaxTests}
    /\ workers \in 1..MaxWorkersCfg
    /\ started = FALSE
    /\ cfgWorkers = workers
    /\ timeStartSet = FALSE
    /\ queue = <<>>
    /\ holder = [w \in Pool |-> NotSpawned]
    /\ taken = [i \in Items |-> 0]
    /\ sent = {}
    /\ deliveries = [i \in Items |-> 0]
    /\ recorded = {}
    /\ count = 0
    /\ stopCalls = 0
    /\ stopped = FALSE
    /\ noTestsReported = FALSE
    /\ summaries = 0
    /\ completionEntered = FALSE
    /\ tickErrors = 0
    /\ ticks = 0
    /\ abortMessage \in BOOLEAN
    /\ list_labels \in BOOLEAN
    /\ phase = "new"
    /\ runnerCached = FALSE
    /\ loaderStored = FALSE
    /\ exitTests = 0
    /\ yielded = <<>>
    /\ printed = <<>>
    /\ startFailed = FALSE

runVars == <<tests, workers, abortMessage, list_labels>>
configVars == <<phase, runnerCached, loaderStored, exitTests, yielded, printed>>
runnerVars == <<recorded, count>>
poolVars == <<queue, holder, taken, sent>>
tickHist == <<summaries, completionEntered, tickErrors, ticks>>

\* A variant of monitor_start that puts every TestRequest on the queue twice.
\* ---- on_config: runner, abort, listing ----

Labels == 1..MaxLabels          \* tags, ordered as their strings are
NoDoc == 0                      \* mod.__doc__ is None or empty
Docs == {NoDoc, 1}              \* a module's docstring
Sep == 0                        \* the ' - ' of the format, below every tag
Mods == [tag : Labels, doc : Docs]

\* What loader.testmodules(tags) may yield: any sequence of (tag, module) pairs.
ModSeqs == UNION {[1..n -> Mods] : n \in 0..MaxMods}

\* Lines 210-213: tag, or '{0} - {1}'.format(tag, doc) when the module has a doc.
\* A line is the sequence of its pieces.
FormatTag(m) == IF m.doc # NoDoc THEN <<m.tag, Sep, m.doc>> ELSE <<m.tag>>

\* String comparison of two lines, as sorted() applies it.
RECURSIVE LineLeq(_, _)
LineLeq(a, b) ==
    IF a = <<>> THEN TRUE
    ELSE IF b = <<>> THEN FALSE
    ELSE IF Head(a) < Head(b) THEN TRUE
    ELSE IF Head(a) > Head(b) THEN FALSE
    ELSE LineLeq(Tail(a), Tail(b))

RECURSIVE InsertLine(_, _)
InsertLine(x, s) ==
    IF s = <<>> THEN <<x>>
    ELSE IF LineLeq(Head(s), x) THEN <<Head(s)>> \o InsertLine(x, Tail(s))
    ELSE <<x>> \o s

\* sorted(lines), line 214: every element is kept, equal ones included.
RECURSIVE SortedLines(_)
SortedLines(s) ==
    IF s = <<>> THEN <<>> ELSE InsertLine(Head(s), SortedLines(Tail(s)))

\* _tags(), lines 208-213: the formatted line of every yielded pair, in order.
Tags(ms) == [i \in 1..Len(ms) |-> FormatTag(ms[i])]

\* A variant of the runner property that stores the runner and lets on_config
\* store the loader before the abort is raised.
OnConfigAbortsLate ==
    /\ phase = "new"
    /\ IF abortMessage
          THEN /\ exitTests' = exitTests + 1
               /\ phase' = "aborted"
               /\ runnerCached' = TRUE
               /\ loaderStored' = TRUE
               /\ UNCHANGED <<yielded, printed>>
          ELSE /\ runnerCached' = TRUE
               /\ exitTests' = exitTests
               /\ IF list_labels
                     THEN \E ms \in ModSeqs :
                             /\ yielded' = ms
                             /\ printed' = SortedLines(Tags(ms))
                             /\ phase' = "listed"
                             /\ loaderStored' = loaderStored
                     ELSE /\ loaderStored' = TRUE
                          /\ phase' = "loaded"
                          /\ UNCHANGED <<yielded, printed>>
    /\ UNCHANGED <<runVars, started, cfgWorkers, timeStartSet, poolVars, deliveries,
                   runnerVars, stopCalls, stopped, noTestsReported, tickHist,
                   startFailed, workerVars>>

\* TestSuite.on_config, lines 180-219, with the runner property, lines 165-178:
\* runner.configure returns an abort message or not; with one, ExitTest is
\* raised before the runner is cached and leaves on_config at line 189. Without,
\* the runner is cached; in listing mode the formatted tags are printed sorted
\* and on_config returns False at line 217; otherwise the loader is stored.
OnConfig ==
    /\ phase = "new"
    /\ IF abortMessage
          THEN /\ exitTests' = exitTests + 1
               /\ phase' = "aborted"
               /\ UNCHANGED <<runnerCached, loaderStored, yielded, printed>>
          ELSE /\ runnerCached' = TRUE
               /\ exitTests' = exitTests
               /\ IF list_labels
                     THEN \E ms \in ModSeqs :
                             /\ yielded' = ms
                             /\ printed' = SortedLines(Tags(ms))
                             /\ phase' = "listed"
                             /\ loaderStored' = loaderStored
                     ELSE /\ loaderStored' = TRUE
                          /\ phase' = "loaded"
                          /\ UNCHANGED <<yielded, printed>>
    /\ UNCHANGED <<runVars, started, cfgWorkers, timeStartSet, poolVars, deliveries,
                   runnerVars, stopCalls, stopped, noTestsReported, tickHist,
                   startFailed, workerVars>>

MonitorStartPutTwice ==
    /\ phase # "new"
    /\ ~started /\ ~startFailed
    /\ IF ~loaderStored
          THEN /\ startFailed' = TRUE
               /\ UNCHANGED <<started, cfgWorkers, timeStartSet, queue,
                              noTestsReported, stopCalls>>
          ELSE /\ started' = TRUE
               /\ startFailed' = startFailed
               /\ IF tests # <<>>
                     THEN /\ cfgWorkers' = Min(workers, Len(tests))
                          /\ timeStartSet' = TRUE
                          /\ queue' = queue \o tests \o tests
                          /\ UNCHANGED <<noTestsReported, stopCalls>>
                     ELSE /\ noTestsReported' = TRUE
                          /\ stopCalls' = stopCalls + 1
                          /\ UNCHANGED <<cfgWorkers, timeStartSet, queue>>
    /\ UNCHANGED <<runVars, holder, taken, sent, deliveries, runnerVars, stopped,
                   tickHist, configVars, workerVars>>

\* TestSuite.monitor_start, lines 221-235: self.local['loader'] is read first
\* (line 224) and raises KeyError when on_config stored none, before anything is
\* seeded; whether the monitor is started at all after an abort or a listing is
\* the framework's choice, so the model lets it happen. With tests, the pool is sized to
\* min(workers, len(tests)), the start time is taken and one TestRequest per
\* test class is put on the monitor's queue; without, the absence is printed and
\* the arbiter is told to stop.
MonitorStart ==
    /\ phase # "new"
    /\ ~started /\ ~startFailed
    /\ IF ~loaderStored
          THEN /\ startFailed' = TRUE
               /\ UNCHANGED <<started, cfgWorkers, timeStartSet, queue,
                              noTestsReported, stopCalls>>
          ELSE /\ started' = TRUE
               /\ startFailed' = startFailed
               /\ IF tests # <<>>
                     THEN /\ cfgWorkers' = Min(workers, Len(tests))
                          /\ timeStartSet' = TRUE
                          /\ queue' = queue \o tests
                          /\ UNCHANGED <<noTestsReported, stopCalls>>
                     ELSE /\ noTestsReported' = TRUE
                          /\ stopCalls' = stopCalls + 1
                          /\ UNCHANGED <<cfgWorkers, timeStartSet, queue>>
    /\ UNCHANGED <<runVars, holder, taken, sent, deliveries, runnerVars, stopped,
                   tickHist, configVars, workerVars>>

\* The monitor spawns workers up to monitor.cfg 'workers' while it runs.
Spawn(w) ==
    /\ started /\ ~stopped
    /\ holder[w] = NotSpawned
    /\ Cardinality({v \in Pool : holder[v] # NotSpawned}) < cfgWorkers
    /\ holder' = [holder EXCEPT ![w] = Idle]
    /\ UNCHANGED <<runVars, started, cfgWorkers, timeStartSet, queue, taken, sent,
                   deliveries, runnerVars, stopCalls, stopped, noTestsReported,
                   tickHist, configVars, startFailed,
                   workerVars>>

\* TaskQueue.dequeue: an idle worker removes and receives the head, atomically.
Dequeue(w) ==
    /\ ~stopped
    /\ holder[w] = Idle
    /\ queue # <<>>
    /\ holder' = [holder EXCEPT ![w] = Head(queue)]
    /\ taken' = [taken EXCEPT ![Head(queue)] = @ + 1]
    /\ queue' = Tail(queue)
    /\ UNCHANGED <<runVars, started, cfgWorkers, timeStartSet, sent, deliveries,
                   runnerVars, stopCalls, stopped, noTestsReported, tickHist,
                   configVars, startFailed,
                   workerVars>>

\* TestSuite.handle_request, lines 246-248: the worker runs the request and its
\* result goes back to the monitor.
Report(w) ==
    /\ holder[w] \in Items
    /\ sent' = sent \cup {holder[w]}
    /\ holder' = [holder EXCEPT ![w] = Idle]
    /\ UNCHANGED <<runVars, started, cfgWorkers, timeStartSet, queue, taken,
                   deliveries, runnerVars, stopCalls, stopped, noTestsReported,
                   tickHist, configVars, startFailed,
                   workerVars>>

\* A variant of add that counts every call.
RunnerAddEveryCall(i) == <<recorded \cup {i}, count + 1>>

\* TestRunner.add (ResultAggregator.add): the result is stored by its task
\* identifier; a result for an identifier already recorded changes nothing.
\* Yields the runner's new <<recorded, count>>.
RunnerAdd(i) ==
    IF i \in recorded THEN <<recorded, count>>
                      ELSE <<recorded \cup {i}, count + 1>>

\* Remotes.actor_test_result, lines 115-116: self.app.runner.add(result). The
\* channel may deliver the same result again.
ActorTestResult(i) ==
    /\ ~stopped
    /\ i \in sent
    /\ deliveries[i] < MaxDeliveries
    /\ deliveries' = [deliveries EXCEPT ![i] = @ + 1]
    /\ recorded' = RunnerAdd(i)[1]
    /\ count' = RunnerAdd(i)[2]
    /\ UNCHANGED <<runVars, started, cfgWorkers, timeStartSet, poolVars, stopCalls,
                   stopped, noTestsReported, tickHist, configVars, startFailed,
                   workerVars>>

\* A variant of monitor_task whose comparison is off by one.
MonitorTaskOffByOne ==
    /\ started /\ ~stopped
    /\ ticks < MaxTicks
    /\ ticks' = ticks + 1
    /\ IF count + 1 >= Len(tests)
          THEN /\ completionEntered' = TRUE
               /\ IF timeStartSet
                     THEN /\ summaries' = summaries + 1
                          /\ stopCalls' = stopCalls + 1
                          /\ tickErrors' = tickErrors
                     ELSE /\ tickErrors' = tickErrors + 1
                          /\ UNCHANGED <<summaries, stopCalls>>
          ELSE UNCHANGED <<completionEntered, summaries, stopCalls, tickErrors>>
    /\ UNCHANGED <<runVars, started, cfgWorkers, timeStartSet, poolVars, deliveries,
                   runnerVars, stopped, noTestsReported, configVars, startFailed,
                   workerVars>>

\* TestSuite.monitor_task, lines 237-244: when runner.count equals the number of
\* tests the elapsed time is computed from self._time_start (an attribute that
\* only monitor_start's non-empty branch assigns: reading it unset raises), then
\* on_end, printSummary and arbiter.stop are called. Otherwise nothing is done.
MonitorTask ==
    /\ started /\ ~stopped
    /\ ticks < MaxTicks
    /\ ticks' = ticks + 1
    /\ IF count = Len(tests)
          THEN /\ completionEntered' = TRUE
               /\ IF timeStartSet
                     THEN /\ summaries' = summaries + 1
                          /\ stopCalls' = stopCalls + 1
                          /\ tickErrors' = tickErrors
                     ELSE /\ tickErrors' = tickErrors + 1
                          /\ UNCHANGED <<summaries, stopCalls>>
          ELSE UNCHANGED <<completionEntered, summaries, stopCalls, tickErrors>>
    /\ UNCHANGED <<runVars, started, cfgWorkers, timeStartSet, poolVars, deliveries,
                   runnerVars, stopped, noTestsReported, configVars, startFailed,
                   workerVars>>

\* arbiter.stop() was called: the shutdown takes effect some time later.
ShutdownTakesEffect ==
    /\ stopCalls > 0
    /\ ~stopped
    /\ stopped' = TRUE
    /\ UNCHANGED <<runVars, started, cfgWorkers, timeStartSet, poolVars, deliveries,
                   runnerVars, stopCalls, noTestsReported, tickHist, configVars, startFailed,
                   workerVars>>

SuiteNext ==
    \/ OnConfig
    \/ MonitorStart
    \/ \E w \in Pool : Spawn(w)
    \/ \E w \in Pool : Dequeue(w)
    \/ \E w \in Pool : Report(w)
    \/ \E i \in Items : ActorTestResult(i)
    \/ MonitorTask
    \/ ShutdownTakesEffect

\* ======================================================================
\* Specifications
\* ======================================================================

\* The suite at rest, for the worker's specification.
SuiteAtRest ==
    /\ tests = <<>> /\ workers = 1 /\ started = FALSE /\ cfgWorkers = 1
    /\ timeStartSet = FALSE /\ queue = <<>>
    /\ holder = [w \in Pool |-> NotSpawned]
    /\ taken = [i \in Items |-> 0] /\ sent = {}
    /\ deliveries = [i \in Items |-> 0]
    /\ recorded = {} /\ count = 0 /\ stopCalls = 0 /\ stopped = FALSE
    /\ noTestsReported = FALSE /\ summaries = 0 /\ completionEntered = FALSE
    /\ tickErrors = 0 /\ ticks = 0
    /\ abortMessage = FALSE /\ list_labels = FALSE /\ phase = "new"
    /\ runnerCached = FALSE /\ loaderStored = FALSE /\ exitTests = 0
    /\ yielded = <<>> /\ printed = <<>> /\ startFailed = FALSE

\* The worker before _run, for the suite's specification.
WorkerAtRest ==
    /\ WorkerInit
    /\ max_requests = 1
    /\ debug = FALSE

Init == WorkerInit /\ SuiteAtRest
Next == WorkerNext
Spec == Init /\ [][Next]_vars

SuiteStart == WorkerAtRest /\ SuiteInit
SuiteSpec == SuiteStart /\ [][SuiteNext]_vars

\* The worker under lasting load: the listening socket may yield a connection
\* at every accept. The worker process is scheduled: whenever one of its own
\* steps is possible, one is eventually taken. Which outcome accept has, and
\* whether the monitor or the parent act, is left to the environment.
WorkerSteps ==
    \/ LoopTop
    \/ AcceptOk
    \/ AcceptMore
    \/ \E e \in AcceptErrnos : AcceptError(e)
    \/ CheckParent
    \/ Notify
    \/ Poll
    \/ Parse
    \/ PreRequest
    \/ CountRequest
    \/ RunHandler
    \/ RequestExcept
    \/ PostRequest
    \/ HandleExcept
    \/ CloseClient

LiveNext ==
    \/ WorkerSteps
    \/ MonitorStop
    \/ ParentChanged

LiveSpec == Init /\ [][LiveNext]_vars /\ WF_vars(WorkerSteps)

\* ======================================================================
\* The worker's properties (Spec)
\* ======================================================================

\* The worker is handling an accepted connection (between accept and close).
InItem == pc \in {"parse", "pre_request", "count", "handler", "request_except",
                  "post_request", "handle_except", "close"}
ThresholdSet == thresholdHit' /\ ~thresholdHit

\* C6 as stated (restart threshold ordering): the threshold sets alive = false
\* only after the item that reached it is complete, its response written.
C6_AsStated == [][ThresholdSet => response = "written"]_vars

\* C6 (amended): the threshold sets alive = false when nr reaches max_requests,
\* before the handler of that item runs; the worker still finishes the item: it
\* leaves the loop only with no connection in hand and every accepted connection
\* closed.
C6_RestartThreshold ==
    /\ [][ThresholdSet =>
             /\ pc = "count" /\ pc' = "handler"
             /\ nr' = max_requests
             /\ client = "open" /\ response = "none"]_vars
    /\ [](pc = "done" => (client = "none" /\ closed = accepted))
    /\ [](InItem => client = "open")

\* C6's case: the worker left the loop by the threshold with its last response written.
C6_Witness ==
    /\ pc = "done" /\ exit = "stop"
    /\ thresholdHit /\ ~stopSignal
    /\ nr = max_requests
    /\ response = "written"

C8_OrphanDetection ==
    /\ [][(pc = "check_parent" /\ ppid # get_parent_id /\ pc' # pc) =>
             /\ pc' = "done" /\ exit' = "orphan"
             /\ UNCHANGED <<accepted, notifies, polls, nr, client>>]_vars
    /\ [][pc = "done" => UNCHANGED <<pc, exit, accepted, notifies, polls, nr, client>>]_vars
    /\ [](exit = "orphan" => (ppid # get_parent_id /\ client = "none"))

\* C8's case: a worker that served and idled before, gone as an orphan.
C8_Witness ==
    /\ pc = "done" /\ exit = "orphan"
    /\ accepted >= 1 /\ notifies >= 1

\* C9 as stated (bounded observation): after alive became false, and after the
\* parent changed, at most one further item is accepted and one poll begun.
C9_AsStated ==
    /\ itemsAfterStop <= 1 /\ pollsAfterStop <= 1
    /\ itemsAfterOrphan <= 1 /\ pollsAfterOrphan <= 1

\* C9 (amended): after alive became false at most one further item is accepted
\* and at most one poll begun; after the parent changed at most one poll is
\* begun: the change is seen at the next transient accept failure, and until
\* then the worker goes on accepting the connections that are available.
C9_BoundedObservation ==
    /\ itemsAfterStop <= 1 /\ pollsAfterStop <= 1
    /\ itemsAfterStop + pollsAfterStop <= 1
    /\ pollsAfterOrphan <= 1
    /\ (pc \in {"notify", "poll"} /\ ppid # get_parent_id) => pollsAfterOrphan = 0

\* C9's case: connections always available, the stop came just before an accept.
C9_Witness ==
    /\ pc = "done" /\ exit = "stop"
    /\ idles = 0
    /\ accepted >= 2
    /\ itemsAfterStop = 1

\* C10 (cooperative shutdown): the worker leaves by the stop condition only from
\* the loop top with alive false and no connection in hand; an item in hand is
\* never abandoned; and with alive false at the loop top nothing is accepted.
C10_CooperativeShutdown ==
    /\ [][(exit' = "stop" /\ exit # "stop") =>
             (pc = "top" /\ ~alive /\ client = "none" /\ closed = accepted)]_vars
    /\ [][(InItem /\ ~alive') => (pc' # "done" /\ exit' = "none")]_vars
    /\ [][(pc = "top" /\ ~alive) => (accepted' = accepted /\ pc' \in {"top", "done"})]_vars
    /\ [][pc = "done" => accepted' = accepted]_vars

\* C10's case: the Monitor's stop arrived while the handler of an item ran.
C10_Witness ==
    /\ pc = "handler"
    /\ stopSignal /\ ~alive /\ ~thresholdHit
    /\ itemsAfterStop = 0
    /\ client = "open"

\* C11 (acquisition error classification): the worker enters the no-work branch
\* only after accept raised an allowed errno; it ends with the error re-raised
\* exactly when accept raised another errno, with no connection in hand, and
\* then accepts and executes nothing more.
C11_AcquisitionErrors ==
    /\ [](pc = "check_parent" => acceptErrno \in ALLOWED_ERRORS)
    /\ [](exit = "fatal" <=> acceptErrno \in (AcceptErrnos \ ALLOWED_ERRORS))
    /\ [](exit = "fatal" => (pc = "done" /\ client = "none" /\ closed = accepted))
    /\ [][exit = "fatal" => UNCHANGED <<pc, accepted, handlerRuns, nr, notifies>>]_vars

\* C11's case: a transient error was passed over earlier, a later one was fatal.
C11_Witness ==
    /\ exit = "fatal"
    /\ idles >= 1 /\ notifies >= 1
    /\ accepted >= 1

\* C14 as stated (best-effort error response): when handle is about to return
\* for an item whose execution raised an error, an error response was attempted.
C14_AsStated ==
    (pc = "close" /\ failure.stage \in {"request", "handler"}
                  /\ failure.kind \in {"EPIPE", "ESOCK", "Exception"}) => errorSent

\* C14 (amended): an error response (the 500 of handle, or the traceback of
\* handle_request in debug mode) is attempted for every item that raised an
\* exception other than socket.error and StopIteration; an item that raised
\* socket.error gets none, nor does a premature disconnect; whatever the sending
\* does, no exception is left when the client is closed and none leaves handle.
C14_BestEffortErrorResponse ==
    /\ []((pc = "close" /\ failure.kind = "Exception") => errorSent)
    /\ []((pc = "close" /\ failure.kind = "Exception" /\ ~debug)
             => response \in {"500", "500 failed"})
    /\ []((pc = "close" /\ IsSocketError(failure.kind)) => ~errorSent)
    /\ []((pc = "close" /\ failure.kind = "StopIteration"
                        /\ (~debug \/ failure.stage = "parse")) => ~errorSent)
    /\ [](pc = "close" => err = "none")
    /\ [](exit # "raised")
    /\ [][InItem => pc' # "done"]_vars

\* C14's case: the handler raised, the 500 could not be sent, handle goes on to close.
C14_Witness ==
    /\ pc = "close"
    /\ failure = [stage |-> "handler", kind |-> "Exception"]
    /\ response = "500 failed"

\* C15 as stated (served-count accounting): between items nr is the number of
\* items whose handler ran and whose response was written without error.
C15_AsStated == ~InItem => nr = served

\* C15 (amended): nr is incremented before the handler runs: at every point it
\* is the number of items whose handler was entered (the one entering included),
\* whether or not the handler then failed; the threshold has set alive false
\* exactly when nr has reached max_requests; an item that fails before the
\* handler is entered does not advance nr.
C15_ServedCount ==
    /\ nr = handlerRuns + (IF pc = "handler" THEN 1 ELSE 0)
    /\ served <= nr
    /\ thresholdHit <=> nr >= max_requests
    /\ (InItem /\ failure.stage \in {"parse", "request"}) => nr = handlerRuns

\* C15's case: a handler failed, and its item was the one reaching the threshold.
C15_Witness ==
    /\ pc = "done" /\ exit = "stop"
    /\ ~stopSignal
    /\ served < nr
    /\ failure.stage = "handler"

\* C17 (backlog draining, idle-only checks): after handle the worker is at the
\* loop top and from there accepts again or leaves; while an item is in hand
\* nothing is notified or polled; the parent check is entered only from a failed
\* accept, the heartbeat only from the parent check, the poll only from the
\* heartbeat, and the poll leads back to the loop top.
C17_BacklogDraining ==
    /\ [][(pc = "close" /\ pc' # pc) => pc' = "top"]_vars
    /\ [][(pc = "top" /\ pc' # pc) => pc' \in {"accept", "done"}]_vars
    /\ [][InItem => UNCHANGED <<notifies, polls, idles>>]_vars
    /\ [][pc' # pc =>
             /\ (pc' = "check_parent" => (pc = "accept" /\ idles' = idles + 1))
             /\ (pc' = "notify" => pc = "check_parent")
             /\ (pc' = "poll" => (pc = "notify" /\ notifies' = notifies + 1))
             /\ (pc = "poll" => (pc' = "top" /\ polls' = polls + 1))]_vars
    /\ [][(notifies' # notifies \/ polls' # polls) => pc \in {"notify", "poll"}]_vars
    /\ [](polls <= notifies /\ notifies <= idles)

\* C17's case: two connections served one after the other without any poll.
C17_Witness ==
    /\ pc = "accept"
    /\ closed = 2 /\ accepted = 2
    /\ idles = 0 /\ notifies = 0 /\ polls = 0

\* C19 (bounded requests per worker): nr never exceeds max_requests, nor does
\* the number of requests whose handler was entered.
C19_BoundedRequests ==
    /\ nr <= max_requests
    /\ handlerRuns <= max_requests

\* C19's case: the bound is reached after more accepts than requests counted.
C19_Witness ==
    /\ nr = max_requests
    /\ accepted > nr
    /\ idles >= 1
    /\ pc = "done"

\* C20 (connection release): a connection is open exactly while handle has it,
\* and whenever the worker is outside handle every accepted connection has been
\* closed exactly once.
C20_ConnectionRelease ==
    /\ InItem => (client = "open" /\ closed = accepted - 1)
    /\ ~InItem => (client = "none" /\ closed = accepted)

\* C20's case: back at accept after a second item whose error response failed.
C20_Witness ==
    /\ pc = "accept"
    /\ accepted >= 2
    /\ itemFailed /\ response = "500 failed"

\* C16 (heartbeat liveness): in every execution in which the worker keeps
\* running (never leaves _run), notify occurs again and again, also when a
\* connection is available at every accept.
C16_HeartbeatLiveness == <>(pc = "done") \/ []<><<Notify>>_vars

\* ======================================================================
\* The test suite's properties (SuiteSpec)
\* ======================================================================

Seeded == {tests[k] : k \in DOMAIN tests}
InQueue(i) == Cardinality({k \in DOMAIN queue : queue[k] = i})
Spawned == {w \in Pool : holder[w] # NotSpawned}

\* C1 (at-most-once dequeue): once monitor_start has seeded the queue, every
\* seeded item is either still queued once or has been dequeued exactly once,
\* no item that was not seeded is ever dequeued, and no two workers hold the
\* same item: the dequeued multiset is the seeded set when the queue is empty.
C1_AtMostOnceDequeue ==
    started =>
        /\ \A i \in Items :
              taken[i] + InQueue(i) = (IF i \in Seeded THEN 1 ELSE 0)
        /\ \A w, v \in Pool :
              (w # v /\ holder[w] \in Items) => holder[v] # holder[w]
        /\ (queue = <<>> => \A i \in Seeded : taken[i] = 1)

\* C1's case: several items, all dequeued, two workers holding one each.
C1_Witness ==
    /\ Len(tests) >= 2
    /\ queue = <<>>
    /\ \E w, v \in Pool : w # v /\ holder[w] \in Items /\ holder[v] \in Items

\* A monitor_task call is the step that advances ticks.
TickStep == ticks' = ticks + 1
ReportsComplete == summaries' = summaries + 1 /\ stopCalls' = stopCalls + 1
DoesNothing == UNCHANGED <<summaries, stopCalls, completionEntered, tickErrors,
                           runnerVars, stopped>>

C3_PoolSizing ==
    started =>
        /\ cfgWorkers = Min(workers, Len(tests))
        /\ (tests = <<>> => Spawned = {})

\* C4 as stated (empty run): with no tests, monitor_start reports it and calls
\* arbiter.stop, and no tick ever enters the completion branch.
C4_EmptyRunDistinguished ==
    (started /\ tests = <<>>) =>
        /\ noTestsReported
        /\ stopCalls >= 1
        /\ ~completionEntered

\* C5 (idempotent aggregation): runner.count is the number of distinct task
\* identifiers for which actor_test_result was called, however often and in
\* whatever order the results were delivered.
C5_IdempotentAggregation ==
    /\ count = Cardinality({i \in Items : deliveries[i] > 0})
    /\ recorded = {i \in Items : deliveries[i] > 0}

\* C5's case: one result delivered twice, another once.
C5_Witness ==
    /\ \E i \in Items : deliveries[i] >= 2
    /\ \E i \in Items : deliveries[i] = 1
    /\ count = 2

\* C12 (setup abort): when runner.configure returns an abort message, on_config
\* ends with ExitTest raised exactly once, neither runner nor loader is stored,
\* monitor_start seeds nothing, no worker holds or reports a task and no summary
\* is printed; without an abort message ExitTest is never raised. A started
\* monitor always has its loader, and a stored loader its cached runner, so no
\* later use of self.runner configures (and aborts) again.
C12_SetupAbort ==
    /\ (abortMessage /\ phase # "new") =>
          /\ phase = "aborted"
          /\ exitTests = 1
          /\ ~runnerCached /\ ~loaderStored
          /\ ~started /\ queue = <<>>
          /\ \A w \in Pool : holder[w] = NotSpawned
          /\ \A i \in Items : taken[i] = 0
          /\ sent = {} /\ count = 0
          /\ summaries = 0 /\ ~completionEntered
          /\ printed = <<>>
    /\ (~abortMessage \/ phase = "new") => exitTests = 0
    /\ started => loaderStored
    /\ loaderStored => runnerCached

\* C12's case: the abort was raised and the monitor's start then found no loader.
C12_Witness ==
    /\ abortMessage
    /\ phase = "aborted" /\ exitTests = 1
    /\ startFailed

Sorted(s) == \A i \in 1..(Len(s) - 1) : LineLeq(s[i], s[i + 1])
NoDuplicates(s) == \A i, j \in 1..Len(s) : i # j => s[i] # s[j]
Range(s) == {s[i] : i \in 1..Len(s)}

\* C13 (listing mode): after on_config in listing mode the printed label lines
\* are sorted, each label line appears exactly once, the lines are those of the
\* labels the loader yielded (with the description when the module has one), and
\* no loader is stored, nothing is seeded and no pool worker runs.
C13_ListingMode ==
    phase = "listed" =>
        /\ Sorted(printed)
        /\ NoDuplicates(printed)
        /\ Range(printed) = {FormatTag(m) : m \in Range(yielded)}
        /\ ~loaderStored
        /\ ~started /\ queue = <<>>
        /\ \A w \in Pool : holder[w] = NotSpawned

\* C18 (single final summary): with K >= 1 tests the completion actions of
\* monitor_task are performed at most once.
C18_SingleSummary ==
    Len(tests) >= 1 => (summaries <= 1 /\ stopCalls <= 1)

====
